---------------------------- MODULE Spec2Model ----------------------------
(***************************************************************************)
(* The CockroachDB schema-migration driver of SpiceDB                      *)
(* (internal/datastore/crdb/migrations/driver.go) and the datastore option *)
(* builder (internal/datastore/crdb/options.go).                           *)
(*                                                                         *)
(* Spec     : NumDrivers CRDBDriver instances, each on a connection of its *)
(*            own, run Version, Transact and Close against one backend.    *)
(*            Every backend round trip of Transact is one step.            *)
(* SpecOpts : generateConfig applied to every option sequence of at most   *)
(*            MaxOptions options, one call per step.                       *)
(***************************************************************************)
EXTENDS Integers, Sequences, FiniteSets

(***************************************************************************)
(* Bounds.                                                                 *)
(***************************************************************************)
NumDrivers == 2      \* independent CRDBDriver instances
MaxRows    == 2      \* rows the schema_version table can hold
MaxOptions == 2      \* options passed to generateConfig

Drivers  == 1..NumDrivers
\* version identifiers; "" is what the bootstrap migration replaces
Versions == {"", "001"}

\* driver.go:19
postgresMissingTableErrorCode == "42P01"

(***************************************************************************)
(* The backend.  schema_version is absent, or holds a bag of rows (one     *)
(* column, version_num).  data stands for everything else the migration    *)
(* bodies write: driver d's body toggles the membership of d.              *)
(***************************************************************************)
NoRows == [v \in Versions |-> 0]
NoTable == [exists |-> FALSE, rows |-> NoRows]
Table(rs) == [exists |-> TRUE, rows |-> rs]
OneRow(v) == Table([w \in Versions |-> IF w = v THEN 1 ELSE 0])

RECURSIVE SumRows(_, _)
SumRows(rs, S) ==
    IF S = {} THEN 0
    ELSE LET v == CHOOSE w \in S : TRUE IN rs[v] + SumRows(rs, S \ {v})
RowCount(t) == SumRows(t.rows, Versions)

\* INSERT INTO schema_version VALUES (v)
InsertRow(t, v) == Table([t.rows EXCEPT ![v] = @ + 1])

\* error values: kind, and the row count an "affected" error reports
Err(k) == [kind |-> k, rows |-> 0]
Nil == Err("nil")
AffectedErr(n) == [kind |-> "affected", rows |-> n]
\* what the backend answers a statement with
PgError(code) == [kind |-> "pg", code |-> code]
OtherError == [kind |-> "other", code |-> ""]
NoError == [kind |-> "none", code |-> ""]

VARIABLES
    db,        \* committed backend state: [table, data]
    lock,      \* the driver whose open transaction holds write intents on schema_version, or 0
    pend,      \* schema_version as the lock holder's transaction sees it
    conn,      \* apd.db of each driver: "open" or "closed"
    txOpen,    \* a transaction is open on the driver's connection
    pc,        \* where each driver is inside Transact
    version,   \* Transact's parameter version (the new version)
    replaced,  \* Transact's parameter replaced
    dirty,     \* the body has mutated data inside the open transaction
    err,       \* the error Transact is about to return (deferred Rollback pending)
    ctxDone,   \* the ctx of the driver's latest Transact call is cancelled or past its deadline
    ret,       \* what the latest step returned to its caller: [who, op, val, err], and
               \* cause, the backend's answer to the query of a Version call
    calls,     \* history: the calls the driver's Transact has made so far, with their outcome
    seen,      \* history: schema_version as the transaction saw it when its UPDATE ran
    last,      \* history: the arguments of the latest Transact whose commit took effect, and
               \* whether it returned nil
    lost,      \* history: a rival committed replaced -> other while this attempt was open
    options,   \* generateConfig's argument: a sequence of options
    built      \* what generateConfig returned for it: [done, cfg, err]

dvars == <<db, lock, pend, conn, txOpen, pc, version, replaced, dirty, err, ctxDone, ret, calls, seen, last, lost>>
ovars == <<options, built>>
vars == <<dvars, ovars>>

InFlight(d) == pc[d] # "idle"
View(d) == IF lock = d THEN pend ELSE db.table
Ret(d, op, val, e, cause) == [who |-> d, op |-> op, val |-> val, err |-> e, cause |-> cause]
NoRet == Ret(0, "none", "", Nil, NoError)
NoStep == [version |-> "", replaced |-> "", nil |-> FALSE]
\* history: driver d's Transact has made call c, which succeeded or not
Called(d, c, ok) == calls' = [calls EXCEPT ![d] = Append(@, [call |-> c, ok |-> ok])]

DriverInit ==
    /\ \E t \in {NoTable, Table(NoRows)} \cup {OneRow(v) : v \in Versions} :
           db = [table |-> t, data |-> {}]
    /\ lock = 0
    /\ pend = NoTable
    /\ conn = [d \in Drivers |-> "open"]
    /\ txOpen = [d \in Drivers |-> FALSE]
    /\ pc = [d \in Drivers |-> "idle"]
    /\ version = [d \in Drivers |-> ""]
    /\ replaced = [d \in Drivers |-> ""]
    /\ dirty = [d \in Drivers |-> FALSE]
    /\ err = [d \in Drivers |-> Nil]
    /\ ctxDone = [d \in Drivers |-> FALSE]
    /\ ret = NoRet
    /\ calls = [d \in Drivers |-> << >>]
    /\ seen = [d \in Drivers |-> NoTable]
    /\ last = NoStep
    /\ lost = [d \in Drivers |-> FALSE]

(***************************************************************************)
(* Version (driver.go:51-63).                                              *)
(***************************************************************************)
\* What QueryRow(ctx, queryLoadVersion).Scan(&loaded) can produce on driver
\* d's connection: a closed connection or a transport failure is an error
\* that is no PgError; a statement the server rejects is a PgError, with the
\* missing-table code exactly when schema_version does not exist; a table
\* without rows is pgx.ErrNoRows; otherwise the first row the scan yields.
QueryRowScan(d) ==
    IF conn[d] # "open" THEN {[loaded |-> "", err |-> OtherError]}
    ELSE {[loaded |-> "", err |-> OtherError],
          [loaded |-> "", err |-> PgError("40001")]}
         \cup (IF ~db.table.exists
               THEN {[loaded |-> "", err |-> PgError(postgresMissingTableErrorCode)]}
               ELSE IF RowCount(db.table) = 0
               THEN {[loaded |-> "", err |-> OtherError]}
               ELSE {[loaded |-> v, err |-> NoError] :
                         v \in {w \in Versions : db.table.rows[w] > 0}})

\* VersionResult without the missing-table case: every error is a load error
VersionResultNoBootstrap(loaded, e) ==
    IF e # NoError THEN <<"", Err("load")>> ELSE <<loaded, Nil>>

\* VersionResult taking every PgError, whatever its code, for a missing table
VersionResultAnyPgError(loaded, e) ==
    IF e # NoError
    THEN IF e.kind = "pg" THEN <<"", Nil>> ELSE <<"", Err("load")>>
    ELSE <<loaded, Nil>>

\* lines 54-62: what Version returns for a scan result: <<string, error>>
VersionResult(loaded, e) ==
    IF e # NoError
    THEN IF e.kind = "pg" /\ e.code = postgresMissingTableErrorCode
         THEN <<"", Nil>>
         ELSE <<"", Err("load")>>
    ELSE <<loaded, Nil>>

Version(d) ==
    /\ pc[d] = "idle"
    /\ \E q \in QueryRowScan(d) :
           LET r == VersionResult(q.loaded, q.err)
           IN  ret' = Ret(d, "Version", r[1], r[2], q.err)
    /\ UNCHANGED <<ovars, db, lock, pend, conn, txOpen, pc, version, replaced, dirty, err, ctxDone, calls, seen, last, lost>>

(***************************************************************************)
(* Close (driver.go:104-106).                                              *)
(***************************************************************************)
Close(d, e) ==
    /\ pc[d] = "idle"
    /\ conn[d] = "open"
    /\ conn' = [conn EXCEPT ![d] = "closed"]
    /\ ret' = Ret(d, "Close", "", e, NoError)
    /\ UNCHANGED <<ovars, db, lock, pend, txOpen, pc, version, replaced, dirty, err, ctxDone, calls, seen, last, lost>>

(***************************************************************************)
(* Transact (driver.go:65-81) and writeVersion (driver.go:85-101).         *)
(***************************************************************************)
\* lines 66-69: apd.db.BeginTx; ok is the backend's answer.  A BeginTx that
\* succeeds was given a live ctx.
TransactBegin(d, v, r, ok) ==
    /\ pc[d] = "idle"
    /\ ok => conn[d] = "open"
    /\ IF ok
       THEN /\ pc' = [pc EXCEPT ![d] = "begun"]
            /\ txOpen' = [txOpen EXCEPT ![d] = TRUE]
            /\ version' = [version EXCEPT ![d] = v]
            /\ replaced' = [replaced EXCEPT ![d] = r]
            /\ ctxDone' = [ctxDone EXCEPT ![d] = FALSE]
            /\ Called(d, "begin", TRUE)
            /\ ret' = NoRet
       ELSE /\ ret' = Ret(d, "Transact", "", Err("begin"), NoError)
            /\ UNCHANGED <<pc, txOpen, version, replaced, ctxDone, calls>>
    /\ UNCHANGED <<ovars, db, lock, pend, conn, dirty, err, seen, last, lost>>

\* What a migration body may do to schema_version as its transaction sees it:
\* nothing, CREATE TABLE with a first row, or INSERT a row.
BodyTableOps(t) ==
    {[write |-> FALSE, table |-> t]}
    \cup (IF ~t.exists
          THEN {[write |-> TRUE, table |-> OneRow(v)] : v \in Versions}
          ELSE IF RowCount(t) < MaxRows
          THEN {[write |-> TRUE, table |-> InsertRow(t, v)] : v \in Versions}
          ELSE {})

\* AfterBody dropping the body's error
AfterBodyIgnoresError(e) == "bodied"

\* lines 72-75: where Transact goes once f returned e
AfterBody(e) == IF e # Nil THEN "failing" ELSE "bodied"

\* line 72: f(ctx, tx).  The body writes its key of data, may write
\* schema_version (op) and returns e.  A write to schema_version waits for
\* the intents of another open transaction.  cancel: ctx fires while the body
\* runs, which aborts the call the body has in flight; what the body then
\* returns is the body's business.
TransactBody(d, op, e, cancel) ==
    /\ pc[d] = "begun"
    /\ op.write => lock \in {0, d}
    /\ dirty' = [dirty EXCEPT ![d] = TRUE]
    /\ ctxDone' = [ctxDone EXCEPT ![d] = cancel]
    /\ Called(d, "body", e = Nil)
    /\ IF op.write
       THEN lock' = d /\ pend' = op.table
       ELSE UNCHANGED <<lock, pend>>
    /\ pc' = [pc EXCEPT ![d] = AfterBody(e)]
    /\ err' = [err EXCEPT ![d] = e]
    /\ ret' = NoRet
    /\ UNCHANGED <<ovars, db, conn, txOpen, version, replaced, seen, last, lost>>

\* UpdateVersion as an upsert: with no row holding p2 it inserts the row p1
UpdateVersionUpserts(t, p1, p2, fail) ==
    IF fail THEN [err |-> OtherError, affected |-> 0, table |-> t]
    ELSE IF ~t.exists
    THEN [err |-> PgError(postgresMissingTableErrorCode), affected |-> 0, table |-> t]
    ELSE IF t.rows[p2] = 0
    THEN [err |-> NoError, affected |-> 1, table |-> InsertRow(t, p1)]
    ELSE [err |-> NoError,
          affected |-> t.rows[p2],
          table |-> IF p1 = p2 THEN t
                    ELSE Table([t.rows EXCEPT ![p2] = 0, ![p1] = @ + t.rows[p2]])]

\* line 22, queryWriteVersion: UPDATE schema_version SET version_num=$1 WHERE
\* version_num=$2 evaluated on table t; fail is a statement failure.
UpdateVersion(t, p1, p2, fail) ==
    IF fail THEN [err |-> OtherError, affected |-> 0, table |-> t]
    ELSE IF ~t.exists
    THEN [err |-> PgError(postgresMissingTableErrorCode), affected |-> 0, table |-> t]
    ELSE [err |-> NoError,
          affected |-> t.rows[p2],
          table |-> IF p1 = p2 THEN t
                    ELSE Table([t.rows EXCEPT ![p2] = 0, ![p1] = @ + t.rows[p2]])]

\* writeVersionExec passing replaced for both parameters of the statement
writeVersionExecSameArgs(t, ver, repl, fail) == UpdateVersion(t, repl, repl, fail)

\* line 86: tx.Exec(ctx, queryWriteVersion, version, replaced)
writeVersionExec(t, ver, repl, fail) == UpdateVersion(t, ver, repl, fail)

\* writeVersion rejecting only an update of more than one row
writeVersionAcceptsZero(res) ==
    IF res.err # NoError THEN Err("exec")
    ELSE IF res.affected > 1 THEN AffectedErr(res.affected)
    ELSE Nil

\* writeVersion rejecting only an update that affected no row
writeVersionAcceptsMany(res) ==
    IF res.err # NoError THEN Err("exec")
    ELSE IF res.affected = 0 THEN AffectedErr(res.affected)
    ELSE Nil

\* lines 87-100: the error writeVersion returns for an Exec result
writeVersion(res) ==
    IF res.err # NoError THEN Err("exec")
    ELSE IF res.affected # 1 THEN AffectedErr(res.affected)
    ELSE Nil

\* AfterWrite dropping writeVersion's error
AfterWriteIgnoresError(e) == "written"

\* lines 76-79: where Transact goes once writeVersion returned e
AfterWrite(e) == IF e # Nil THEN "failing" ELSE "written"

\* line 76: writeVersion(ctx, tx, version, replaced).  The UPDATE waits for
\* the intents of another open transaction.  With ctx done the Exec fails at
\* once; cancel: ctx fires while the Exec is in flight or waiting, which aborts
\* it.
TransactWrite(d, fail, cancel) ==
    /\ pc[d] = "bodied"
    /\ lock \in {0, d} \/ ctxDone[d] \/ cancel
    /\ (ctxDone[d] \/ cancel) => fail
    /\ ctxDone' = [ctxDone EXCEPT ![d] = @ \/ cancel]
    /\ LET res == writeVersionExec(View(d), version[d], replaced[d], fail)
           e == writeVersion(res)
       IN  /\ IF res.err = NoError /\ res.affected > 0
              THEN lock' = d /\ pend' = res.table
              ELSE UNCHANGED <<lock, pend>>
           /\ pc' = [pc EXCEPT ![d] = AfterWrite(e)]
           /\ err' = [err EXCEPT ![d] = e]
           /\ seen' = [seen EXCEPT ![d] = IF res.err = NoError THEN View(d) ELSE NoTable]
           /\ Called(d, "write", e = Nil)
    /\ ret' = NoRet
    /\ UNCHANGED <<ovars, db, conn, txOpen, version, replaced, dirty, last, lost>>

\* Transact dropping the result of tx.Commit
CommitResultDropped(ok, cancel) == Nil

\* line 80: the error tx.Commit returns, which Transact returns
CommitResult(ok, cancel) == IF ok /\ ~cancel THEN Nil ELSE Err("commit")

\* the committed state once d's transaction is applied
Applied(d) ==
    [table |-> View(d),
     data |-> IF dirty[d]
              THEN (IF d \in db.data THEN db.data \ {d} ELSE db.data \cup {d})
              ELSE db.data]

\* history: what a commit by d leaving the committed state new makes of the
\* open attempts that have not yet written their version
LostAfter(d, new) ==
    [e \in Drivers |->
        IF e = d THEN FALSE
        ELSE IF pc[e] \in {"begun", "bodied"} /\ new.table # db.table
        THEN IF new.table.exists /\ new.table.rows[replaced[e]] > 0 THEN FALSE
             ELSE IF replaced[e] = replaced[d] THEN TRUE
             ELSE lost[e]
        ELSE lost[e]]

\* the driver's call state once Transact has returned e
Returned(d, e) ==
    /\ pc' = [pc EXCEPT ![d] = "idle"]
    /\ ret' = Ret(d, "Transact", "", e, NoError)
    /\ version' = [version EXCEPT ![d] = ""]
    /\ replaced' = [replaced EXCEPT ![d] = ""]
    /\ dirty' = [dirty EXCEPT ![d] = FALSE]
    /\ err' = [err EXCEPT ![d] = Nil]
    /\ seen' = [seen EXCEPT ![d] = NoTable]
    /\ calls' = [calls EXCEPT ![d] = << >>]
    /\ IF lock = d THEN lock' = 0 /\ pend' = NoTable ELSE UNCHANGED <<lock, pend>>

\* line 80: return tx.Commit(ctx); ok: the backend commits the transaction.
\* A commit the backend refuses aborts the transaction, and the deferred
\* Rollback then finds the transaction closed.  cancel: ctx fires while the
\* commit is in flight; the call is aborted and returns an error whether or
\* not the backend has committed, and the connection is closed.
TransactCommit(d, ok, cancel) ==
    /\ pc[d] = "written"
    /\ txOpen' = [txOpen EXCEPT ![d] = FALSE]
    /\ ctxDone' = [ctxDone EXCEPT ![d] = @ \/ cancel]
    /\ conn' = [conn EXCEPT ![d] = IF cancel THEN "closed" ELSE @]
    /\ IF ok
       THEN /\ db' = Applied(d)
            /\ lost' = LostAfter(d, Applied(d))
            /\ last' = [version |-> version[d], replaced |-> replaced[d], nil |-> ~cancel]
       ELSE /\ lost' = [lost EXCEPT ![d] = FALSE]
            /\ UNCHANGED <<db, last>>
    /\ Returned(d, CommitResult(ok, cancel))
    /\ UNCHANGED ovars

\* Transact without the deferred Rollback
DeferredRollbackSkipped(open) == open

\* line 70: what the deferred tx.Rollback(ctx) leaves of a transaction that
\* was open: nothing
DeferredRollback(open) == FALSE

\* Transact returning the deferred Rollback's error when the Rollback fails
DeferredErrorEscalates(e, ok) == IF ok THEN e ELSE Err("rollback")

\* line 70: the error Transact returns when it was about to return e and the
\* deferred Rollback succeeded or not: the defer statement discards what
\* tx.Rollback returns
DeferredError(e, ok) == e

\* line 70: defer tx.Rollback(ctx), run when Transact returns err[d]; its own
\* error is dropped.  A Rollback that fails (ok = FALSE), as it does when ctx
\* is done, kills the connection, which ends the transaction on the server
\* too.
TransactRollback(d, ok) ==
    /\ pc[d] = "failing"
    /\ ok => ~ctxDone[d]
    /\ txOpen' = [txOpen EXCEPT ![d] = DeferredRollback(@)]
    /\ conn' = [conn EXCEPT ![d] = IF ok THEN @ ELSE "closed"]
    /\ lost' = [lost EXCEPT ![d] = FALSE]
    /\ Returned(d, DeferredError(err[d], ok))
    /\ UNCHANGED <<ovars, db, ctxDone, last>>

Next ==
    \/ \E d \in Drivers : Version(d)
    \/ \E d \in Drivers, e \in {Nil, Err("close")} : Close(d, e)
    \/ \E d \in Drivers, v, r \in Versions, ok \in BOOLEAN : TransactBegin(d, v, r, ok)
    \/ \E d \in Drivers, e \in {Nil, Err("body")}, cancel \in BOOLEAN :
           \E op \in BodyTableOps(View(d)) : TransactBody(d, op, e, cancel)
    \/ \E d \in Drivers, fail, cancel \in BOOLEAN : TransactWrite(d, fail, cancel)
    \/ \E d \in Drivers, ok, cancel \in BOOLEAN : TransactCommit(d, ok, cancel)
    \/ \E d \in Drivers, ok \in BOOLEAN : TransactRollback(d, ok)

(***************************************************************************)
(* generateConfig and the option setters (options.go).  Durations are      *)
(* counted in seconds.                                                     *)
(***************************************************************************)
\* options.go:22, 5 * time.Second
defaultRevisionQuantization == 5
\* options.go:23
defaultWatchBufferLength == 128
\* options.go:30, 24 * time.Hour
defaultGCWindow == 24 * 3600

\* a *time.Duration or *int field: nil, or a pointer to x
Unset == [set |-> FALSE, val |-> 0]
Ptr(x) == [set |-> TRUE, val |-> x]

\* lines 54-58
ConnMaxIdleTime(idle, po) == [po EXCEPT !.connMaxIdleTime = Ptr(idle)]
\* lines 63-67
ConnMaxLifetime(lifetime, po) == [po EXCEPT !.connMaxLifetime = Ptr(lifetime)]
\* lines 72-76
MinOpenConns(conns, po) == [po EXCEPT !.minOpenConns = Ptr(conns)]
\* MaxOpenConns writing the lower pool bound as well
MaxOpenConnsSetsBoth(conns, po) == [po EXCEPT !.maxOpenConns = Ptr(conns), !.minOpenConns = Ptr(conns)]
\* lines 80-84
MaxOpenConns(conns, po) == [po EXCEPT !.maxOpenConns = Ptr(conns)]
\* lines 89-93
WatchBufferLength(watchBufferLength, po) == [po EXCEPT !.watchBufferLength = watchBufferLength]
\* lines 97-101
RevisionQuantization(bucketSize, po) == [po EXCEPT !.revisionQuantization = bucketSize]
\* lines 105-109
GCWindow(window, po) == [po EXCEPT !.gcWindow = window]

\* a CRDBOption is the setter's name and the argument its closure captured
Option(name, arg) == [name |-> name, arg |-> arg]
\* line 36: option(&computed)
ApplyOption(o, po) ==
    CASE o.name = "ConnMaxIdleTime" -> ConnMaxIdleTime(o.arg, po)
      [] o.name = "ConnMaxLifetime" -> ConnMaxLifetime(o.arg, po)
      [] o.name = "MinOpenConns" -> MinOpenConns(o.arg, po)
      [] o.name = "MaxOpenConns" -> MaxOpenConns(o.arg, po)
      [] o.name = "WatchBufferLength" -> WatchBufferLength(o.arg, po)
      [] o.name = "RevisionQuantization" -> RevisionQuantization(o.arg, po)
      [] o.name = "GCWindow" -> GCWindow(o.arg, po)

\* lines 29-33
DefaultOptions ==
    [connMaxIdleTime |-> Unset, connMaxLifetime |-> Unset,
     minOpenConns |-> Unset, maxOpenConns |-> Unset,
     watchBufferLength |-> defaultWatchBufferLength,
     revisionQuantization |-> defaultRevisionQuantization,
     gcWindow |-> defaultGCWindow]

\* ApplyOptions running through the options from the last to the first
RECURSIVE ApplyOptionsReversed(_, _)
ApplyOptionsReversed(opts, n) ==
    IF n = 0 THEN DefaultOptions
    ELSE ApplyOption(opts[Len(opts) - n + 1], ApplyOptionsReversed(opts, n - 1))

\* lines 35-37: the loop, having applied the first n options
RECURSIVE ApplyOptions(_, _)
ApplyOptions(opts, n) ==
    IF n = 0 THEN DefaultOptions
    ELSE ApplyOption(opts[n], ApplyOptions(opts, n - 1))

NoConfigError == [msg |-> "", args |-> << >>]
\* CheckConfig accepting a quantization equal to the GC window
CheckConfigStrictlyGreater(c) ==
    IF c.revisionQuantization > c.gcWindow
    THEN [msg |-> "errQuantizationTooLarge", args |-> <<c.revisionQuantization, c.gcWindow>>]
    ELSE NoConfigError

\* lines 40-46: the check, and the error with its two operands
CheckConfig(c) ==
    IF c.revisionQuantization >= c.gcWindow
    THEN [msg |-> "errQuantizationTooLarge", args |-> <<c.revisionQuantization, c.gcWindow>>]
    ELSE NoConfigError

\* lines 28-49
generateConfig(opts) ==
    LET c == ApplyOptions(opts, Len(opts))
    IN  [done |-> TRUE, cfg |-> c, err |-> CheckConfig(c)]

\* the arguments the callers pass
Durations == {-1, 0, 1, 5, 6, 24 * 3600}
Counts == {-1, 0, 4}
BufferLengths == {0, 128, 65535}
Options ==
    {Option("ConnMaxIdleTime", x) : x \in {0, 5}}
    \cup {Option("ConnMaxLifetime", x) : x \in {0, 5}}
    \cup {Option("MinOpenConns", x) : x \in Counts}
    \cup {Option("MaxOpenConns", x) : x \in Counts}
    \cup {Option("WatchBufferLength", x) : x \in BufferLengths}
    \cup {Option("RevisionQuantization", x) : x \in Durations}
    \cup {Option("GCWindow", x) : x \in Durations}

RECURSIVE SeqsUpTo(_, _)
SeqsUpTo(S, n) ==
    IF n = 0 THEN {<< >>}
    ELSE LET shorter == SeqsUpTo(S, n - 1)
         IN  shorter \cup {Append(q, x) : q \in shorter, x \in S}

NotBuilt == [done |-> FALSE, cfg |-> DefaultOptions, err |-> NoConfigError]

Build ==
    /\ ~built.done
    /\ built' = generateConfig(options)
    /\ UNCHANGED options

OptsIdle ==
    /\ options = << >>
    /\ built = NotBuilt

OptsInit ==
    /\ options \in SeqsUpTo(Options, MaxOptions)
    /\ built = NotBuilt

DriverIdle ==
    /\ DriverInit
    /\ db.table = NoTable

Init == DriverInit /\ OptsIdle
Spec == Init /\ [][Next]_vars

InitOpts == DriverIdle /\ OptsInit
NextOpts == Build /\ UNCHANGED dvars
SpecOpts == InitOpts /\ [][NextOpts]_vars

(***************************************************************************)
(* Properties of Transact and Version, checked under Spec.                 *)
(***************************************************************************)
\* the step is one of driver d's call to Transact
Moves(d) == pc'[d] # pc[d]
\* Transact returns e to driver d's caller in this step
TransactReturns(d, e) == ret' = Ret(d, "Transact", "", e, NoError)
\* Transact, having begun, returns to driver d's caller in this step
Returns(d) == pc[d] # "idle" /\ pc'[d] = "idle"
\* the step leaves nothing of d's transaction behind: nothing committed, no
\* transaction open, no pending write
RolledBack(d) == db' = db /\ ~txOpen'[d] /\ lock' # d

\* C1: Transact is atomic with respect to body failure.  When the body
\* returns an error after mutating backend state inside the transaction,
\* Transact goes to its deferred Rollback without writing anything, and it
\* returns the body's error with the committed state (stored version and
\* data) as it was: no step of the attempt changes it.
C1_BodyFailureAtomic ==
    [][\A d \in Drivers :
         /\ (pc[d] = "begun" /\ err'[d] = Err("body"))
                => pc'[d] = "failing" /\ dirty'[d] /\ db' = db
         /\ (pc[d] = "failing" /\ err[d] = Err("body") /\ Moves(d))
                => TransactReturns(d, Err("body")) /\ pc'[d] = "idle" /\ RolledBack(d)
      ]_vars
\* Transact has just returned the error of a body that ran against a stored
\* version
C1_Witness ==
    /\ ret.op = "Transact" /\ ret.err = Err("body")
    /\ pc[ret.who] = "idle"
    /\ RowCount(db.table) = 1

\* an attempt with the same replaced as d's is open, or has committed since d began
Raced(d) == lost[d] \/ \E e \in Drivers \ {d} : InFlight(e) /\ replaced[e] = replaced[d]

\* C2 as stated: of the attempts racing with the same replaced, the stored
\* version, exactly one succeeds and every other one fails with the 0-rows
\* (version mismatch) error: an attempt returns nil unless a rival has
\* committed, and the 0-rows error if one has.
C2_ExactlyOneSucceeds ==
    [][\A d \in Drivers :
         (pc[d] # "idle" /\ pc'[d] = "idle" /\ Raced(d)
            /\ (lost[d] \/ db.table = OneRow(replaced[d])))
            => TransactReturns(d, IF lost[d] THEN AffectedErr(0) ELSE Nil)
      ]_vars

\* C2 as amended: at most one of the attempts racing with the same replaced
\* commits.  Once a rival has committed replaced -> another version (and no
\* later commit has stored replaced again), an open attempt whose body did not
\* write schema_version fails at its UPDATE, with the 0-rows error unless the
\* statement itself failed, and commits nothing; and two attempts are never
\* both past their UPDATE.
C2_AtMostOneCommits ==
    [][/\ \A d \in Drivers :
            (pc[d] = "bodied" /\ Moves(d) /\ lost[d] /\ lock # d)
               => /\ pc'[d] = "failing"
                  /\ err'[d] \in {AffectedErr(0), Err("exec")}
                  /\ db' = db
       /\ \A d, e \in Drivers : (pc'[d] = "written" /\ pc'[e] = "written") => d = e
      ]_vars
\* an attempt has got the 0-rows error after a rival committed its replaced
C2_Witness ==
    \E d \in Drivers : lost[d] /\ pc[d] = "failing" /\ err[d] = AffectedErr(0)

C5_NoOpenTransaction ==
    \A d \in Drivers : pc[d] = "idle" => ~txOpen[d] /\ lock # d
\* Transact has just returned after its UPDATE affected a wrong number of rows
C5_Witness ==
    /\ ret.op = "Transact" /\ ret.err.kind = "affected"
    /\ pc[ret.who] = "idle"

\* C6: Version returns ("", nil) when the backend answers its query with the
\* missing-table error code, which it does when schema_version is absent.
C6_MissingTableIsNoVersion ==
    (ret.op = "Version" /\ ret.cause = PgError(postgresMissingTableErrorCode))
        => ret.val = "" /\ ret.err = Nil /\ ~db.table.exists
\* Version has just run against a backend without schema_version
C6_Witness ==
    /\ ret.op = "Version" /\ ret.cause = PgError(postgresMissingTableErrorCode)
    /\ ~db.table.exists

\* C7: for every failure of its query other than the missing-table error,
\* Version returns "" and the wrapped load error, also when schema_version
\* exists and holds no row; it returns a nil error only for a row it read or
\* for the missing-table error.
C7_OtherFailuresAreErrors ==
    ret.op = "Version"
        => /\ (ret.cause \notin {NoError, PgError(postgresMissingTableErrorCode)})
                => ret.val = "" /\ ret.err = Err("load")
           /\ (db.table.exists /\ RowCount(db.table) = 0)
                => ret.val = "" /\ ret.err = Err("load")
           /\ ret.err = Nil
                => \/ ret.cause = PgError(postgresMissingTableErrorCode) /\ ~db.table.exists
                   \/ ret.cause = NoError /\ db.table.rows[ret.val] > 0
\* Version has just run against a schema_version without rows
C7_Witness ==
    /\ ret.op = "Version" /\ ret.err = Err("load")
    /\ db.table.exists /\ RowCount(db.table) = 0
    /\ conn[ret.who] = "open"

\* C11: when the UPDATE of writeVersion affects more than one row, Transact
\* does not go on to commit: writeVersion returns the error reporting the row
\* count, and Transact returns it with nothing committed, the body's
\* mutations and every updated version row rolled back.
C11_MultiRowUpdateFails ==
    [][\A d \in Drivers :
         /\ (pc[d] = "bodied" /\ Moves(d) /\ seen'[d] # NoTable
               /\ View(d).exists /\ View(d).rows[replaced[d]] > 1)
                => /\ pc'[d] = "failing"
                   /\ err'[d] = AffectedErr(View(d).rows[replaced[d]])
                   /\ db' = db
         /\ (pc[d] = "failing" /\ err[d].kind = "affected" /\ err[d].rows > 1 /\ Moves(d))
                => TransactReturns(d, err[d]) /\ pc'[d] = "idle" /\ RolledBack(d)
      ]_vars
\* Transact has just returned the error of an UPDATE that affected two rows
C11_Witness ==
    /\ ret.op = "Transact" /\ ret.err = AffectedErr(2)
    /\ pc[ret.who] = "idle"
    /\ lock = 0

\* C12: the error Transact returns when its UPDATE affected zero rows is of a
\* kind of its own: a caller that finds an error of the kind of the zero-rows
\* error knows that the optimistic check failed, not that the statement
\* failed nor that more than one row was updated.
C12_MismatchIsDistinctKind ==
    (ret.op = "Transact" /\ ret.err.kind = AffectedErr(0).kind)
        => ret.err.rows = 0

\* C14: the calls one Transact makes are a prefix of begin, body, version
\* write, commit, each made once and only after every earlier one succeeded.
\* A BeginTx that fails returns at once: the body is not invoked and nothing
\* is written.  After a call that failed (the body, or the version write with
\* its row count) the only step left is the return, which commits nothing;
\* the commit is attempted once, after begin, body and version write
\* succeeded, and Transact returns with its result.
C14_CallsFormPrefix ==
    [][\A d \in Drivers :
         LET c == calls'[d]
             order == <<"begin", "body", "write">>
         IN  /\ Len(c) <= 3
             /\ \A i \in 1..Len(c) : c[i].call = order[i] /\ (i < Len(c) => c[i].ok)
             /\ (pc[d] = "idle" /\ ret' = Ret(d, "Transact", "", Err("begin"), NoError))
                    => /\ pc'[d] = "idle" /\ c = << >>
                       /\ db' = db /\ lock' = lock /\ pend' = pend /\ dirty' = dirty
             /\ (pc[d] = "failing" /\ Moves(d))
                    => ~calls[d][Len(calls[d])].ok /\ pc'[d] = "idle" /\ db' = db
             /\ (pc[d] = "written" /\ Moves(d))
                    => /\ Len(calls[d]) = 3 /\ calls[d][3].ok
                       /\ pc'[d] = "idle"
             /\ db' # db => \E e \in Drivers : pc[e] = "written" /\ Moves(e)
      ]_vars
\* a Transact whose version write failed is about to return
C14_Witness ==
    \E d \in Drivers :
        /\ pc[d] = "failing" /\ Len(calls[d]) = 3
        /\ calls[d][2].ok /\ ~calls[d][3].ok

\* C15: the error Transact returns is the first failure it met, whether or
\* not the deferred Rollback succeeds: the error of BeginTx, the body's error
\* as the body returned it, the error of the version-write statement, the
\* row-count error, or the error of the commit.
C15_FirstFailureReturned ==
    [][\A d \in Drivers :
         /\ (pc[d] = "idle" /\ pc'[d] = "idle" /\ ret'.who = d /\ ret'.op = "Transact")
                => ret'.err = Err("begin")
         /\ (pc[d] = "begun" /\ Moves(d) /\ ~calls'[d][2].ok)
                => err'[d] = Err("body") /\ pc'[d] = "failing"
         /\ (pc[d] = "bodied" /\ Moves(d) /\ ~calls'[d][3].ok)
                => /\ err'[d] = IF seen'[d] = NoTable THEN Err("exec")
                                 ELSE AffectedErr(seen'[d].rows[replaced[d]])
                   /\ pc'[d] = "failing"
         /\ (pc[d] = "failing" /\ Moves(d))
                => /\ err[d] # Nil
                   /\ ret' = Ret(d, "Transact", "", err[d], NoError)
         /\ (Returns(d) /\ ret'.err # Nil)
                => ret'.err = CASE pc[d] = "written" -> Err("commit")
                                [] calls[d][Len(calls[d])].call = "body" -> Err("body")
                                [] OTHER -> err[d]
      ]_vars
\* Transact has just returned its body's error although the deferred Rollback
\* failed (which closed the connection) with ctx live
C15_Witness ==
    /\ ret.op = "Transact" /\ ret.err = Err("body")
    /\ conn[ret.who] = "closed" /\ ~ctxDone[ret.who]
    /\ pc[ret.who] = "idle"

\* C13 as stated: when ctx is cancelled or its deadline fires while the
\* transaction is open (during the body, the version write or the commit),
\* Transact returns an error and the transaction is rolled back: nothing of
\* it is committed and it is not left open.
C13_CancelRollsBack ==
    [][\A d \in Drivers :
         (Returns(d) /\ ctxDone'[d])
            => /\ ret'.who = d /\ ret'.op = "Transact" /\ ret'.err # Nil
               /\ RolledBack(d)
      ]_vars

\* C13 as amended: once ctx has fired, no later statement of the call takes
\* effect (the version write fails at once, nothing is run again), Transact
\* returns an error and the transaction is closed.  When ctx fired during the
\* body or the version write nothing is committed; when it fired while the
\* commit was in flight the backend holds either nothing or the whole of the
\* transaction.
C13_CancelAbortsOrCommitsWhole ==
    [][\A d \in Drivers :
         /\ (pc[d] = "bodied" /\ Moves(d) /\ ctxDone'[d])
                => /\ pc'[d] = "failing" /\ err'[d] = Err("exec")
                   /\ db' = db /\ lock' = lock /\ pend' = pend
         /\ (Returns(d) /\ ctxDone'[d])
                => /\ ret'.who = d /\ ret'.op = "Transact" /\ ret'.err # Nil
                   /\ ~txOpen'[d] /\ lock' # d
                   /\ IF pc[d] = "written" THEN db' \in {db, Applied(d)} ELSE db' = db
      ]_vars
\* Transact has just returned the error of a version write that ctx aborted,
\* after a body that had mutated data
C13_Witness ==
    /\ ret.op = "Transact" /\ ret.err = Err("exec")
    /\ ctxDone[ret.who] /\ pc[ret.who] = "idle"
    /\ ~txOpen[ret.who] /\ ret.who \notin db.data

\* C16 as stated: when the commit of Transact fails, Transact returns the
\* commit error and nothing of the transaction is retained: the stored
\* version and data are what they were.
C16_CommitFailureRetainsNothing ==
    [][\A d \in Drivers :
         (pc[d] = "written" /\ Moves(d) /\ ret'.err # Nil)
            => ret'.err = Err("commit") /\ RolledBack(d)
      ]_vars

\* C16 as amended: a commit that does not take effect is reported with the
\* commit error; a commit reported as failed leaves no transaction open and
\* no partial state: the backend holds the state before the commit, or,
\* when the commit was cut off in flight, possibly the whole transaction
\* (version change and body mutations together).  A commit that the backend
\* refused retains nothing.
C16_CommitFailureAllOrNothing ==
    [][\A d \in Drivers :
         (pc[d] = "written" /\ Moves(d))
            => /\ Returns(d) /\ ret'.who = d /\ ret'.op = "Transact"
               /\ db' = db => ret'.err = Err("commit")
               /\ ret'.err # Nil
                    => /\ ret'.err = Err("commit")
                       /\ ~txOpen'[d] /\ lock' # d
                       /\ db' \in {db, Applied(d)}
                       /\ ~ctxDone'[d] => db' = db
      ]_vars
\* Transact has just returned the error of a commit that the backend refused,
\* against a stored version
C16_Witness ==
    /\ ret.op = "Transact" /\ ret.err = Err("commit")
    /\ ~ctxDone[ret.who] /\ conn[ret.who] = "open"
    /\ ret.who \notin db.data /\ RowCount(db.table) = 1

\* the step is a call of Version or Close by d, or d's Transact returning an error
Harmless(d) ==
    /\ ret'.who = d
    /\ ret'.op \in {"Version", "Close"} \/ (ret'.op = "Transact" /\ ret'.err # Nil)

\* C17 as stated: the stored version changes only at the commit of a
\* Transact whose replaced equalled the stored version, and then to that
\* call's version; Version, Close and every Transact that returns an error
\* leave schema_version as it was.
C17_ChangesOnlyAtMatchingCommit ==
    [][/\ db'.table # db.table
            => \E d \in Drivers :
                   /\ pc[d] = "written" /\ Moves(d)
                   /\ db.table = OneRow(replaced[d])
                   /\ db'.table = OneRow(version[d])
       /\ \A d \in Drivers : Harmless(d) => db'.table = db.table
      ]_vars

\* C17 as amended: schema_version changes only when the commit of a Transact
\* takes effect.  What is committed is the table as the transaction saw it
\* after its body, in which exactly one row held replaced, with that row
\* holding version instead; if the body wrote no row of schema_version, that
\* is the stored table with the one row replaced turned into version and the
\* number of rows unchanged.  Version, Close and every Transact that returns
\* an error leave schema_version as it was, except a Transact whose commit
\* was cut off in flight after the backend had committed.
C17_ChangesOnlyAtCommit ==
    [][/\ db'.table # db.table
            => \E d \in Drivers :
                   /\ pc[d] = "written" /\ Moves(d)
                   /\ ret'.who = d /\ (ret'.err = Nil \/ ctxDone'[d])
                   /\ seen[d].exists /\ seen[d].rows[replaced[d]] = 1
                   /\ db'.table = UpdateVersion(seen[d], version[d], replaced[d], FALSE).table
                   /\ seen[d] = db.table => RowCount(db'.table) = RowCount(db.table)
       /\ \A d \in Drivers :
            (Harmless(d) /\ ~(pc[d] = "written" /\ ctxDone'[d])) => db'.table = db.table
      ]_vars
\* a Transact whose commit was cut off has returned the commit error, and the
\* stored version is the one it wrote
C17_Witness ==
    /\ ret.op = "Transact" /\ ret.err = Err("commit")
    /\ ctxDone[ret.who] /\ ret.who \in db.data
    /\ db.table = OneRow("001")

\* the latest commit that took effect is that of a Transact with d's
\* arguments, which returned nil, and these rename the version
Rerun(d) ==
    /\ last = [version |-> version[d], replaced |-> replaced[d], nil |-> TRUE]
    /\ version[d] # replaced[d]

\* C19 as stated: after Transact(version, replaced) with version # replaced
\* has succeeded and nothing else was committed since, a Transact with the
\* same arguments is rejected at its version write: by the zero-rows error
\* (or the statement's own failure), with nothing committed and the stored
\* version left at version.
C19_RerunRejected ==
    [][\A d \in Drivers :
         (pc[d] = "bodied" /\ Moves(d) /\ Rerun(d))
            => /\ pc'[d] = "failing"
               /\ err'[d] \in {AffectedErr(0), Err("exec")}
               /\ db' = db
      ]_vars

\* C19 as amended: the same, for a second Transact whose body has written no
\* row of schema_version: its UPDATE finds no row holding replaced, so it
\* fails with the zero-rows error unless the statement itself failed, and
\* Transact returns that error with nothing committed and the stored table
\* holding version and no row replaced.
C19_RerunRejectedUnlessBodyWrites ==
    [][\A d \in Drivers :
         /\ (pc[d] = "bodied" /\ Moves(d) /\ Rerun(d) /\ lock # d)
                => /\ pc'[d] = "failing"
                   /\ err'[d] \in {AffectedErr(0), Err("exec")}
                   /\ seen'[d] # NoTable => err'[d] = AffectedErr(0)
                   /\ db' = db
         /\ (pc[d] = "failing" /\ Moves(d) /\ Rerun(d) /\ err[d] = AffectedErr(0))
                => /\ TransactReturns(d, AffectedErr(0)) /\ RolledBack(d)
                   /\ db'.table.rows[version[d]] >= 1
                   /\ db'.table.rows[replaced[d]] = 0
      ]_vars
\* the second run of the step that was committed last has got the zero-rows
\* error
C19_Witness ==
    \E d \in Drivers :
        /\ pc[d] = "failing" /\ err[d] = AffectedErr(0)
        /\ Rerun(d) /\ db.table = OneRow(version[d])

\* schema_version is absent, or present without a row
Bootstrap(t) == ~t.exists \/ RowCount(t) = 0

\* C20: Transact does not create the version row.  While the backend is in
\* the bootstrap state (schema_version absent or without a row), a version
\* write that finds no row holding replaced, the body having created none in
\* the transaction, fails (the statement's error, or zero rows affected);
\* Transact then returns an error and leaves the bootstrap state as it was.
\* A Transact that returns nil from the bootstrap state had a body that wrote
\* schema_version, leaving exactly one row holding replaced, and the UPDATE
\* added no row to what the body left.
C20_TransactNeverCreatesRow ==
    [][\A d \in Drivers :
         /\ (pc[d] = "bodied" /\ Moves(d) /\ Bootstrap(db.table)
               /\ (View(d).exists => View(d).rows[replaced[d]] = 0))
                => /\ pc'[d] = "failing"
                   /\ err'[d] \in {Err("exec"), AffectedErr(0)}
                   /\ ~View(d).exists => err'[d] = Err("exec")
                   /\ db' = db
         /\ (pc[d] = "failing" /\ Moves(d) /\ Bootstrap(db.table))
                => /\ ret'.who = d /\ ret'.op = "Transact" /\ ret'.err # Nil
                   /\ RolledBack(d)
         /\ (pc[d] = "written" /\ Moves(d) /\ Bootstrap(db.table) /\ ret'.err = Nil)
                => /\ lock = d /\ seen[d] # db.table
                   /\ seen[d].exists /\ seen[d].rows[replaced[d]] = 1
                   /\ RowCount(db'.table) = RowCount(seen[d])
      ]_vars
\* on a backend without schema_version, a Transact whose body created the
\* table with the row replaced has updated that row and is about to commit
C20_Witness ==
    \E d \in Drivers :
        /\ pc[d] = "written" /\ ~db.table.exists
        /\ version[d] # replaced[d]
        /\ seen[d] = OneRow(replaced[d])
        /\ lock = d /\ pend = OneRow(version[d])

(***************************************************************************)
(* Properties of generateConfig, checked under SpecOpts.                   *)
(***************************************************************************)
\* the argument of the last option named name among the first n, or dflt
RECURSIVE LastArg(_, _, _, _)
LastArg(opts, n, name, dflt) ==
    IF n = 0 THEN dflt
    ELSE IF opts[n].name = name THEN [set |-> TRUE, val |-> opts[n].arg]
    ELSE LastArg(opts, n - 1, name, dflt)
Final(name, dflt) == LastArg(options, Len(options), name, [set |-> FALSE, val |-> dflt])
FinalQuantization == Final("RevisionQuantization", 5).val
FinalGCWindow == Final("GCWindow", 24 * 3600).val

\* C8: generateConfig fails exactly when the revision quantization that the
\* options leave is >= the GC window they leave, and the error reports the
\* two values; every configuration returned without error has
\* revisionQuantization < gcWindow.
C8_QuantizationBelowWindow ==
    built.done
        => /\ (built.err # NoConfigError) <=> (FinalQuantization >= FinalGCWindow)
           /\ (built.err # NoConfigError)
                => /\ built.err.msg = "errQuantizationTooLarge"
                   /\ built.err.args = <<FinalQuantization, FinalGCWindow>>
           /\ (built.err = NoConfigError)
                => built.cfg.revisionQuantization < built.cfg.gcWindow
\* the default quantization of 5s with GCWindow(1s) has been rejected
C8_Witness ==
    /\ built.done
    /\ options = <<Option("GCWindow", 1)>>
    /\ built.err.args = <<5, 1>>

\* C9: when the options leave revisionQuantization < gcWindow, generateConfig
\* succeeds and every field holds the argument of the last option that sets
\* it, or its default (gcWindow 24h, watchBufferLength 128,
\* revisionQuantization 5s, the pool and timeout fields unset).
C9_LastOptionWins ==
    (built.done /\ FinalQuantization < FinalGCWindow)
        => /\ built.err = NoConfigError
           /\ built.cfg.connMaxIdleTime = Final("ConnMaxIdleTime", 0)
           /\ built.cfg.connMaxLifetime = Final("ConnMaxLifetime", 0)
           /\ built.cfg.minOpenConns = Final("MinOpenConns", 0)
           /\ built.cfg.maxOpenConns = Final("MaxOpenConns", 0)
           /\ built.cfg.watchBufferLength = Final("WatchBufferLength", 128).val
           /\ built.cfg.revisionQuantization = Final("RevisionQuantization", 5).val
           /\ built.cfg.gcWindow = Final("GCWindow", 24 * 3600).val
\* a configuration has been built from two options that set the same field
C9_Witness ==
    /\ built.done /\ built.err = NoConfigError
    /\ options = <<Option("GCWindow", 6), Option("GCWindow", 24 * 3600)>>
    /\ built.cfg.gcWindow = 24 * 3600
    /\ ~built.cfg.minOpenConns.set

\* C10: in every configuration generateConfig produces, minOpenConns and
\* maxOpenConns are each unset or >= 0.
C10_PoolBoundsNonNegative ==
    built.done
        => /\ built.cfg.minOpenConns.set => built.cfg.minOpenConns.val >= 0
           /\ built.cfg.maxOpenConns.set => built.cfg.maxOpenConns.val >= 0

\* the field an option is documented to set, and the value it is to store in it
FieldOf(o) ==
    CASE o.name = "ConnMaxIdleTime" -> "connMaxIdleTime"
      [] o.name = "ConnMaxLifetime" -> "connMaxLifetime"
      [] o.name = "MinOpenConns" -> "minOpenConns"
      [] o.name = "MaxOpenConns" -> "maxOpenConns"
      [] o.name = "WatchBufferLength" -> "watchBufferLength"
      [] o.name = "RevisionQuantization" -> "revisionQuantization"
      [] o.name = "GCWindow" -> "gcWindow"
Stored(o) ==
    IF o.name \in {"ConnMaxIdleTime", "ConnMaxLifetime", "MinOpenConns", "MaxOpenConns"}
    THEN [set |-> TRUE, val |-> o.arg]
    ELSE o.arg
\* opts with its options i and i + 1 exchanged
Swapped(opts, i) ==
    [j \in 1..Len(opts) |-> IF j = i THEN opts[i + 1] ELSE IF j = i + 1 THEN opts[i] ELSE opts[j]]

\* C18: every option changes exactly one field of the configuration, the one
\* it is named after, and leaves every other field as it found it; so
\* exchanging two neighbouring options that set different fields gives the
\* same result of generateConfig, error included.
C18_OptionsSetOneField ==
    built.done
        => /\ \A i \in 1..Len(options) :
                 LET before == ApplyOptions(options, i - 1)
                     after == ApplyOptions(options, i)
                 IN  /\ after[FieldOf(options[i])] = Stored(options[i])
                     /\ \A f \in DOMAIN after \ {FieldOf(options[i])} : after[f] = before[f]
           /\ \A i \in 1..(Len(options) - 1) :
                 options[i].name # options[i + 1].name
                    => generateConfig(Swapped(options, i)) = built
\* a configuration has been built from two options that set different fields
C18_Witness ==
    /\ built.done
    /\ options = <<Option("MaxOpenConns", 4), Option("WatchBufferLength", 0)>>
    /\ built.cfg.maxOpenConns = [set |-> TRUE, val |-> 4]
    /\ built.cfg.watchBufferLength = 0
    /\ ~built.cfg.minOpenConns.set

=============================================================================
